---- MODULE Spec2Model ----
(***************************************************************************)
(* Model of the keyword scanner of CountPDFData (src/main.py and           *)
(* src/rescaner.py): text normalisation, the PDF extraction chain, the     *)
(* pattern compiler, the match counter, the folder scan and the two        *)
(* aggregate reports.  Python strings that the code inspects character by  *)
(* character are sequences of one-character strings.                       *)
(***************************************************************************)
EXTENDS Integers, Sequences, FiniteSets, TLC

VARIABLES
  pc,          \* position of the run (or of the function under check)
  variant,     \* "main" (src/main.py) or "rescaner" (src/rescaner.py)
  match_mode,  \* --match: "whole" or "substring"
  arg, res,    \* input and result of a function checked on its own
  fs,          \* the files below the target folder
  taxonomy,    \* the keywords mapping, in declaration order
  patterns,    \* build_patterns' result
  pdf_files,   \* the sorted documents of the running scan
  idx,         \* position of the scan loop in pdf_files
  rows,        \* the detailed rows of the running scan
  log_lines,   \* the log lines of the running scan
  written,     \* what main() wrote in this run
  run          \* number of the run of main() on the folder

scanvars == <<fs, taxonomy, patterns, pdf_files, idx, rows, log_lines,
              written, run>>
vars == <<pc, variant, match_mode, arg, res, scanvars>>

\* ------------------------------------------------------------------ bounds
MaxRawLen == 4
MaxKwLen == 2
MaxPages == 2
MaxDocs == 2
MaxRuns == 2

\* -------------------------------------------------------------- characters
\* characters the model draws texts and names from
LowerLetters ==
  {"a", "b", "c", "d", "e", "f", "g", "l", "m", "o", "p", "r", "s", "t", "u",
   "v", "x", "y"}
UpperLetters == {"A", "B"}
Digits == {"0", "1", "2", "8", "9"}
\* \w of Python's re: letters, digits and the underscore
WordChars == LowerLetters \cup UpperLetters \cup Digits \cup {"_"}
\* \s of Python's re and the characters str.strip() removes
SpaceChars == {" ", "\n", "\t", "\r"}

IsWord(c) == c \in WordChars
IsSpace(c) == c \in SpaceChars
IsDigit(c) == c \in Digits

\* str.lower() on one character
LowerChar(c) == IF c = "A" THEN "a" ELSE IF c = "B" THEN "b" ELSE c

\* str.lower()
Lower(s) == [i \in 1..Len(s) |-> LowerChar(s[i])]

SeqsUpTo(S, n) == UNION {[1..k -> S] : k \in 0..n}

\* number of leading / trailing whitespace characters of s
RECURSIVE LeadingSpaces(_)
LeadingSpaces(s) ==
  IF s = <<>> \/ ~IsSpace(Head(s)) THEN 0 ELSE 1 + LeadingSpaces(Tail(s))

RECURSIVE TrailingSpaces(_)
TrailingSpaces(s) ==
  IF s = <<>> \/ ~IsSpace(s[Len(s)]) THEN 0
  ELSE 1 + TrailingSpaces(SubSeq(s, 1, Len(s) - 1))

\* str.strip()
Strip(s) ==
  IF LeadingSpaces(s) = Len(s) THEN <<>>
  ELSE SubSeq(s, LeadingSpaces(s) + 1, Len(s) - TrailingSpaces(s))

\* ------------------------------------------------- normalize_extracted_text
\* length of the maximal whitespace run of s starting at position p
RECURSIVE SpaceRun(_, _)
SpaceRun(s, p) ==
  IF p > Len(s) \/ ~IsSpace(s[p]) THEN 0 ELSE 1 + SpaceRun(s, p + 1)

\* does s[p .. p+n-1] hold a line break
HasNewline(s, p, n) == \E i \in p..(p + n - 1) : s[i] = "\n"

\* re.sub(r"-\s*\n\s*", "", s) from position p: greedy \s* backtracks to the
\* last line break of the run, so a match takes the hyphen and the whole run
RECURSIVE SubHyphenBreak(_, _)
SubHyphenBreak(s, p) ==
  IF p > Len(s) THEN <<>>
  ELSE IF s[p] = "-" /\ HasNewline(s, p + 1, SpaceRun(s, p + 1))
       THEN SubHyphenBreak(s, p + 1 + SpaceRun(s, p + 1))
       ELSE <<s[p]>> \o SubHyphenBreak(s, p + 1)

\* re.sub(r"\s*\n\s*", " ", s) from position p
RECURSIVE SubLineBreak(_, _)
SubLineBreak(s, p) ==
  IF p > Len(s) THEN <<>>
  ELSE IF IsSpace(s[p]) /\ HasNewline(s, p, SpaceRun(s, p))
       THEN <<" ">> \o SubLineBreak(s, p + SpaceRun(s, p))
       ELSE <<s[p]>> \o SubLineBreak(s, p + 1)

\* re.sub(r"\s+", " ", s) from position p
RECURSIVE SubSpaces(_, _)
SubSpaces(s, p) ==
  IF p > Len(s) THEN <<>>
  ELSE IF IsSpace(s[p])
       THEN <<" ">> \o SubSpaces(s, p + SpaceRun(s, p))
       ELSE <<s[p]>> \o SubSpaces(s, p + 1)

\* faulty variant: the last substitution (\s+ to one space) is left out
normalize_without_collapse(raw) ==
  IF raw = <<>> THEN <<>>
  ELSE Lower(Strip(SubLineBreak(SubHyphenBreak(raw, 1), 1)))

normalize_extracted_text(raw) ==
  IF raw = <<>> THEN <<>>
  ELSE Lower(Strip(SubSpaces(SubLineBreak(SubHyphenBreak(raw, 1), 1), 1)))

\* ------------------------------------------------------ extract_text_from_pdf
\* messages are one-element strings: the code only passes them on
EmptyTextMsg == <<"PyPDF2 returned empty text">>
ErrPyPDF2 == <<"PyPDF2 error">>
ErrMiner == <<"pdfminer error">>
ErrFitz == <<"fitz error">>
ErrPike == <<"pikepdf error">>

\* sep.join(parts)
RECURSIVE Join(_, _)
Join(parts, sep) ==
  IF parts = <<>> THEN <<>>
  ELSE IF Len(parts) = 1 THEN parts[1]
  ELSE parts[1] \o sep \o Join(Tail(parts), sep)

\* the loop over reader.pages: a page whose extraction raises counts as None,
\* and only a non-empty page text is appended
RECURSIVE PyPDF2Parts(_)
PyPDF2Parts(pages) ==
  IF pages = <<>> THEN <<>>
  ELSE (IF ~Head(pages).raises /\ Head(pages).text # <<>>
        THEN <<Head(pages).text>> ELSE <<>>) \o PyPDF2Parts(Tail(pages))

\* "text and text.strip()"
HasNonSpace(t) == \E i \in 1..Len(t) : ~IsSpace(t[i])

\* faulty variant: a fallback accepts any text that did not raise
AcceptAnyText(t) == TRUE

\* the acceptance test of the fallbacks
AcceptText(t) == HasNonSpace(t)

\* pdfminer_extract(path) inside its try: the text when it is accepted
MinerHit(m) == ~m.raises /\ AcceptText(m.text)

\* fitz.open(path) and the join of the page texts, inside its try
FitzText(f) == Join(f.pages, <<>>)
FitzHit(f) == ~f.raises /\ AcceptText(FitzText(f))

\* faulty variant: the last error of the chain is returned
LastErrorMsg(d) ==
  IF d.pikepdf.avail /\ d.pikepdf.raises THEN d.pikepdf.err
  ELSE IF d.fitz.avail /\ d.fitz.raises THEN d.fitz.err
  ELSE IF d.pdfminer.avail /\ d.pdfminer.raises THEN d.pdfminer.err
  ELSE IF d.pypdf2.raises THEN d.pypdf2.err ELSE EmptyTextMsg

\* error_pypdf2 when the primary attempt did not return
PrimaryErrorMsg(d) == IF d.pypdf2.raises THEN d.pypdf2.err ELSE EmptyTextMsg

\* src/rescaner.py: result [text, ok, by, tmp]; by names the attempt that
\* returned, tmp tells whether the decrypted copy was written
extract_text_from_pdf_rescaner(d) ==
  LET parts == IF d.pypdf2.raises THEN <<>> ELSE PyPDF2Parts(d.pypdf2.pages)
      k == d.pikepdf
  IN IF parts # <<>>
     THEN [text |-> Join(parts, <<"\n">>), ok |-> TRUE, by |-> "pypdf2",
           tmp |-> FALSE]
     ELSE IF d.pdfminer.avail /\ MinerHit(d.pdfminer)
     THEN [text |-> d.pdfminer.text, ok |-> TRUE, by |-> "pdfminer",
           tmp |-> FALSE]
     ELSE IF d.fitz.avail /\ FitzHit(d.fitz)
     THEN [text |-> FitzText(d.fitz), ok |-> TRUE, by |-> "fitz",
           tmp |-> FALSE]
     ELSE IF k.avail /\ ~k.raises /\ d.pdfminer.avail /\ MinerHit(k.miner)
     THEN [text |-> k.miner.text, ok |-> TRUE, by |-> "decrypt_pdfminer",
           tmp |-> TRUE]
     ELSE IF k.avail /\ ~k.raises /\ d.fitz.avail /\ FitzHit(k.fitz)
     THEN [text |-> FitzText(k.fitz), ok |-> TRUE, by |-> "decrypt_fitz",
           tmp |-> TRUE]
     ELSE [text |-> PrimaryErrorMsg(d), ok |-> FALSE, by |-> "none",
           tmp |-> (k.avail /\ ~k.raises)]

\* src/main.py: PyPDF2 alone; ok whenever the reader opened and iterated
extract_text_from_pdf_main(d) ==
  IF d.pypdf2.raises
  THEN [text |-> d.pypdf2.err, ok |-> FALSE, by |-> "none", tmp |-> FALSE]
  ELSE [text |-> Join(PyPDF2Parts(d.pypdf2.pages), <<"\n">>), ok |-> TRUE,
        by |-> "pypdf2", tmp |-> FALSE]

extract_text_from_pdf(v, d) ==
  IF v = "main" THEN extract_text_from_pdf_main(d)
  ELSE extract_text_from_pdf_rescaner(d)

\* ------------------------------------------------------------ build_patterns
\* re.escape: every character of the keyword becomes a literal token
re_escape(s) == [i \in 1..Len(s) |-> [kind |-> "lit", c |-> s[i]]]

\* faulty variant: the substring matcher consumes the keyword instead of looking ahead
compile_pattern_consuming(t, mode) ==
  [look |-> FALSE,
   bounded |-> (mode # "substring"),
   toks |-> re_escape(Lower(t))]

\* one compiled matcher: the mode decides the wrapping of the escaped keyword
\* (lookahead group for substring, \b ... \b otherwise)
compile_pattern(t, mode) ==
  [look |-> (mode = "substring"),
   bounded |-> (mode # "substring"),
   toks |-> re_escape(Lower(t))]

\* one token against one character under re.IGNORECASE
TokMatch(tok, c) ==
  IF tok.kind = "lit" THEN LowerChar(tok.c) = LowerChar(c) ELSE c # "\n"

\* the token sequence matches text at position p
LitMatchAt(toks, text, p) ==
  /\ p + Len(toks) - 1 <= Len(text)
  /\ \A i \in 1..Len(toks) : TokMatch(toks[i], text[p + i - 1])

\* \b between text[p-1] and text[p]
WordBoundary(text, p) ==
  (p > 1 /\ IsWord(text[p - 1])) # (p <= Len(text) /\ IsWord(text[p]))

\* the whole pattern matches at position p
PatMatchAt(pat, text, p) ==
  /\ LitMatchAt(pat.toks, text, p)
  /\ pat.bounded =>
       WordBoundary(text, p) /\ WordBoundary(text, p + Len(pat.toks))

\* --------------------------------------------------- count_matches_in_text
\* pat.findall(text) from position p: a lookahead match is empty, so the
\* search resumes one character later; a consuming match resumes at its end
RECURSIVE FindallCount(_, _, _)
FindallCount(pat, text, p) ==
  IF p > Len(text) + 1 THEN 0
  ELSE IF PatMatchAt(pat, text, p)
       THEN 1 + FindallCount(pat, text,
                             IF pat.look \/ pat.toks = <<>>
                             THEN p + 1 ELSE p + Len(pat.toks))
       ELSE FindallCount(pat, text, p + 1)

count_matches_in_text(text, pat, mode) ==
  IF text = <<>> THEN 0 ELSE FindallCount(pat, text, 1)

\* ------------------------------------------------------ names and ordering
\* the model's characters in code point order
CharOrder ==
  <<"\t", "\n", "\r", " ", "#", "(", ")", "-", ".", "/", "0", "1", "2", "8",
    "9",
    "A", "B", "_", "a", "b", "c", "d", "e", "f", "g", "l", "m", "o", "p", "r",
    "s", "t", "u", "v", "x", "y">>
Code(c) == CHOOSE i \in 1..Len(CharOrder) : CharOrder[i] = c

\* str < str
RECURSIVE StrLess(_, _)
StrLess(s, t) ==
  IF t = <<>> THEN FALSE
  ELSE IF s = <<>> THEN TRUE
  ELSE IF Head(s) # Head(t) THEN Code(Head(s)) < Code(Head(t))
  ELSE StrLess(Tail(s), Tail(t))

\* Path < Path: the parts are compared one by one
RECURSIVE PartsLess(_, _)
PartsLess(a, b) ==
  IF b = <<>> THEN FALSE
  ELSE IF a = <<>> THEN TRUE
  ELSE IF Head(a) # Head(b) THEN StrLess(Head(a), Head(b))
  ELSE PartsLess(Tail(a), Tail(b))

PathParts(f) == f.dir \o <<f.name>>
PathOf(f) == [dir |-> f.dir, name |-> f.name]

\* str(path): the parts joined by "/"
RECURSIVE JoinParts(_)
JoinParts(parts) ==
  IF parts = <<>> THEN <<>>
  ELSE IF Len(parts) = 1 THEN Head(parts)
  ELSE Head(parts) \o <<"/">> \o JoinParts(Tail(parts))

PathString(f) == JoinParts(PathParts(f))

\* faulty variant: the paths are sorted as strings
RECURSIVE SortPathsAsStrings(_)
SortPathsAsStrings(S) ==
  IF S = {} THEN <<>>
  ELSE LET m == CHOOSE x \in S :
                  \A y \in S \ {x} : StrLess(PathString(x), PathString(y))
       IN <<m>> \o SortPathsAsStrings(S \ {m})

\* sorted(...) of a set of paths
RECURSIVE SortPaths(_)
SortPaths(S) ==
  IF S = {} THEN <<>>
  ELSE LET m == CHOOSE x \in S :
                  \A y \in S \ {x} : PartsLess(PathParts(x), PathParts(y))
       IN <<m>> \o SortPaths(S \ {m})

EndsWith(s, suffix) ==
  /\ Len(s) >= Len(suffix)
  /\ SubSeq(s, Len(s) - Len(suffix) + 1, Len(s)) = suffix

DotPdf == <<".", "p", "d", "f">>

\* base_folder.rglob("*.pdf"): the files whose name ends in .pdf
RglobPdf(files) == {PathOf(f) : f \in {g \in files : EndsWith(g.name, DotPdf)}}

\* s.split("(")[0]
RECURSIVE BeforeParen(_)
BeforeParen(s) ==
  IF s = <<>> \/ Head(s) = "(" THEN <<>>
  ELSE <<Head(s)>> \o BeforeParen(Tail(s))

\* name of the target folder
BaseName == <<"A", "B", " ", "(", "x", ")">>

determine_main_folder(dir) ==
  IF Len(dir) >= 1 THEN Strip(BeforeParen(dir[1]))
  ELSE Strip(BeforeParen(BaseName))

\* faulty variant: the folder name is taken whole, parentheses included
determine_company_name_whole(dir) ==
  LET name == IF dir = <<>> THEN BaseName ELSE dir[Len(dir)]
  IN Strip(IF name = <<>> THEN <<".">> ELSE name)

determine_company_name(dir) ==
  LET name == IF dir = <<>> THEN BaseName ELSE dir[Len(dir)]
      raw == IF name = <<>> THEN <<".">> ELSE name
  IN Strip(BeforeParen(raw))

\* faulty variant: a keyword that is blank after strip() is kept
KeepTermAlways(term) == TRUE

\* t = term.strip(); if not t: continue
KeepTerm(term) == Strip(term) # <<>>

\* the patterns of one category, in keyword order; a keyword that is empty
\* after strip() is skipped
RECURSIVE CategoryPatterns(_, _, _)
CategoryPatterns(cat, terms, mode) ==
  IF terms = <<>> THEN <<>>
  ELSE (IF ~KeepTerm(Head(terms)) THEN <<>>
        ELSE <<[cat |-> cat, term |-> Strip(Head(terms)),
                pat |-> compile_pattern(Strip(Head(terms)), mode)]>>)
       \o CategoryPatterns(cat, Tail(terms), mode)

RECURSIVE build_patterns(_, _)
build_patterns(keywords_data, mode) ==
  IF keywords_data = <<>> THEN <<>>
  ELSE CategoryPatterns(Head(keywords_data).cat, Head(keywords_data).terms,
                        mode)
       \o build_patterns(Tail(keywords_data), mode)

\* ------------------------------------------------------ scan_folder_for_pdfs
Row(main_folder, sub_folder, filename, cat, keyword, count) ==
  [main_folder |-> main_folder, sub_folder |-> sub_folder,
   filename |-> filename, cat |-> cat, keyword |-> keyword, count |-> count]

\* faulty variant: the error branch appends nothing
ErrorRowsNone(main_folder, sub_folder, filename, pats) == <<>>

\* the rows of the "not ok" branch: one zero row per pattern
ErrorRows(main_folder, sub_folder, filename, pats) ==
  [j \in 1..Len(pats) |->
     Row(main_folder, sub_folder, filename, pats[j].cat, pats[j].term, 0)]

\* the rows of a successful extraction: one counted row per pattern
DoneRows(main_folder, sub_folder, filename, pats, normalized, mode) ==
  [j \in 1..Len(pats) |->
     Row(main_folder, sub_folder, filename, pats[j].cat, pats[j].term,
         count_matches_in_text(normalized, pats[j].pat, mode))]

RECURSIVE SumCounts(_)
SumCounts(rs) == IF rs = <<>> THEN 0 ELSE Head(rs).count + SumCounts(Tail(rs))

\* total_found_for_file: main.py counts the keywords found, rescaner.py sums
TotalFound(v, rs) ==
  IF v = "main" THEN Cardinality({j \in 1..Len(rs) : rs[j].count > 0})
  ELSE SumCounts(rs)

\* str.replace("\n", " ")
ReplaceNewlines(s) == [i \in 1..Len(s) |-> IF s[i] = "\n" THEN " " ELSE s[i]]

\* one pass of the loop body over the document at path p with extraction
\* input d: the rows and the log line it appends
ScanOne(v, mode, pats, p, d) ==
  LET ext == extract_text_from_pdf(v, d)
      sub_folder == determine_company_name(p.dir)
      main_folder == determine_main_folder(p.dir)
      done == DoneRows(main_folder, sub_folder, p.name, pats,
                       normalize_extracted_text(ext.text), mode)
  IN IF ~ext.ok
     THEN [rows |-> ErrorRows(main_folder, sub_folder, p.name, pats),
           log |-> [main_folder |-> main_folder, sub_folder |-> sub_folder,
                    filename |-> p.name, status |-> "Error", total |-> 0,
                    reason |-> IF v = "main" THEN <<>>
                               ELSE ReplaceNewlines(Strip(ext.text))],
           ok |-> FALSE, tmp |-> ext.tmp]
     ELSE [rows |-> done,
           log |-> [main_folder |-> main_folder, sub_folder |-> sub_folder,
                    filename |-> p.name, status |-> "Done",
                    total |-> TotalFound(v, done), reason |-> <<>>],
           ok |-> TRUE, tmp |-> ext.tmp]

\* faulty variant: a failed document ends the loop
NextIndexBreak(i, ok, n) == IF ok THEN i + 1 ELSE n + 1

\* the for loop goes on with the next document, after "continue" as well
NextIndex(i, ok, n) == i + 1

\* =============================================== specification SpecExtract
\* the extraction chain on every combination of backend outcomes
\* (no folder is scanned in the specifications of single functions)
IdleScan ==
  /\ fs = {} /\ taxonomy = <<>> /\ patterns = <<>> /\ pdf_files = <<>>
  /\ idx = 0 /\ rows = <<>> /\ log_lines = <<>> /\ written = <<>> /\ run = 0

ExtTexts == {<<>>, <<" ">>, <<"a">>}
PageOutcomes ==
  {[raises |-> TRUE, text |-> <<>>]}
  \cup {[raises |-> FALSE, text |-> t] : t \in ExtTexts}
PyPDF2Outcomes ==
  {[raises |-> TRUE, err |-> ErrPyPDF2, pages |-> <<>>]}
  \cup {[raises |-> FALSE, err |-> <<>>, pages |-> ps] :
          ps \in SeqsUpTo(PageOutcomes, MaxPages)}
MinerRuns ==
  {[raises |-> TRUE, err |-> ErrMiner, text |-> <<>>]}
  \cup {[raises |-> FALSE, err |-> <<>>, text |-> t] : t \in ExtTexts}
FitzRuns ==
  {[raises |-> TRUE, err |-> ErrFitz, pages |-> <<>>]}
  \cup {[raises |-> FALSE, err |-> <<>>, pages |-> ps] :
          ps \in SeqsUpTo({<<" ">>, <<"a">>}, MaxPages)}
NoMinerRun == [raises |-> FALSE, err |-> <<>>, text |-> <<>>]
NoFitzRun == [raises |-> FALSE, err |-> <<>>, pages |-> <<>>]
\* a backend whose import failed is never called
NoMiner == [avail |-> FALSE, raises |-> FALSE, err |-> <<>>, text |-> <<>>]
NoFitz == [avail |-> FALSE, raises |-> FALSE, err |-> <<>>, pages |-> <<>>]
NoPike == [avail |-> FALSE, raises |-> FALSE, err |-> <<>>,
           miner |-> NoMinerRun, fitz |-> NoFitzRun]
MinerOutcomes ==
  {NoMiner}
  \cup {[avail |-> TRUE, raises |-> r.raises, err |-> r.err, text |-> r.text] :
          r \in MinerRuns}
FitzOutcomes ==
  {NoFitz}
  \cup {[avail |-> TRUE, raises |-> r.raises, err |-> r.err,
         pages |-> r.pages] : r \in FitzRuns}
PikeOutcomes ==
  {NoPike,
   [avail |-> TRUE, raises |-> TRUE, err |-> ErrPike,
    miner |-> NoMinerRun, fitz |-> NoFitzRun]}
  \cup {[avail |-> TRUE, raises |-> FALSE, err |-> <<>>,
         miner |-> m, fitz |-> f] : m \in MinerRuns, f \in FitzRuns}

\* src/main.py consults PyPDF2 only
ExtractInputs(v) ==
  IF v = "main"
  THEN [pypdf2 : PyPDF2Outcomes, pdfminer : {NoMiner}, fitz : {NoFitz},
        pikepdf : {NoPike}]
  ELSE [pypdf2 : PyPDF2Outcomes, pdfminer : MinerOutcomes,
        fitz : FitzOutcomes, pikepdf : PikeOutcomes]

InitExtract ==
  /\ IdleScan
  /\ pc = "input"
  /\ variant \in {"main", "rescaner"}
  /\ match_mode = "whole"
  /\ arg \in ExtractInputs(variant)
  /\ res = <<>>

Extract ==
  /\ pc = "input"
  /\ pc' = "extracted"
  /\ res' = extract_text_from_pdf(variant, arg)
  /\ UNCHANGED <<variant, match_mode, arg, scanvars>>

NextExtract == Extract

SpecExtract == InitExtract /\ [][NextExtract]_vars

\* ---------------------------------------------------- claims on SpecExtract
\* C3 as stated: in both files ok = true comes with a text that holds a
\* non-whitespace character
C3_OkTextHasNonSpace ==
  (pc = "extracted" /\ res.ok) => HasNonSpace(res.text)

\* the attempts of src/rescaner.py in their order, and whether each one is
\* run and yields a text the code accepts
PrimaryAccepts(d) == ~d.pypdf2.raises /\ \E i \in 1..Len(d.pypdf2.pages) :
                       ~d.pypdf2.pages[i].raises /\ d.pypdf2.pages[i].text # <<>>
MinerAccepts(d) ==
  d.pdfminer.avail /\ ~d.pdfminer.raises /\ HasNonSpace(d.pdfminer.text)
FitzAccepts(d) ==
  d.fitz.avail /\ ~d.fitz.raises
  /\ \E i \in 1..Len(d.fitz.pages) : HasNonSpace(d.fitz.pages[i])
DecryptRuns(d) == d.pikepdf.avail /\ ~d.pikepdf.raises
DecryptMinerAccepts(d) ==
  DecryptRuns(d) /\ d.pdfminer.avail /\ ~d.pikepdf.miner.raises
  /\ HasNonSpace(d.pikepdf.miner.text)
DecryptFitzAccepts(d) ==
  DecryptRuns(d) /\ d.fitz.avail /\ ~d.pikepdf.fitz.raises
  /\ \E i \in 1..Len(d.pikepdf.fitz.pages) : HasNonSpace(d.pikepdf.fitz.pages[i])

\* C3 amended: src/rescaner.py returns from the first attempt, in the order
\* PyPDF2, pdfminer, PyMuPDF, decrypt-and-retry, whose output it accepts;
\* PyPDF2 is accepted with any non-empty page text (whitespace included), a
\* later attempt only with a non-whitespace character; so with ok = true the
\* text is non-empty, and holds a non-whitespace character unless PyPDF2
\* returned it.  src/main.py returns ok = true whenever PyPDF2 did not raise.
C3_FirstAcceptedAttempt ==
  pc = "extracted" =>
    IF variant = "main"
    THEN res.ok = ~arg.pypdf2.raises
    ELSE /\ res.ok => res.text # <<>>
         /\ (res.ok /\ res.by # "pypdf2") => HasNonSpace(res.text)
         /\ res.by = "pypdf2" <=> PrimaryAccepts(arg)
         /\ res.by = "pdfminer" <=> (~PrimaryAccepts(arg) /\ MinerAccepts(arg))
         /\ res.by = "fitz" <=>
              (~PrimaryAccepts(arg) /\ ~MinerAccepts(arg) /\ FitzAccepts(arg))
         /\ res.by = "decrypt_pdfminer" <=>
              (~PrimaryAccepts(arg) /\ ~MinerAccepts(arg) /\ ~FitzAccepts(arg)
               /\ DecryptMinerAccepts(arg))
         /\ res.by = "decrypt_fitz" <=>
              (~PrimaryAccepts(arg) /\ ~MinerAccepts(arg) /\ ~FitzAccepts(arg)
               /\ ~DecryptMinerAccepts(arg) /\ DecryptFitzAccepts(arg))
         /\ res.ok <=> res.by # "none"

\* a whitespace-only pdfminer text is passed over and PyMuPDF ends the chain
C3_Witness ==
  /\ pc = "extracted"
  /\ variant = "rescaner"
  /\ ~PrimaryAccepts(arg)
  /\ arg.pdfminer.avail /\ ~arg.pdfminer.raises /\ arg.pdfminer.text = <<" ">>
  /\ res.ok /\ res.by = "fitz" /\ HasNonSpace(res.text)

\* the message of the last attempt of the chain that raised
ClaimedLastError(d) ==
  IF DecryptRuns(d) /\ d.fitz.avail /\ d.pikepdf.fitz.raises
  THEN d.pikepdf.fitz.err
  ELSE IF DecryptRuns(d) /\ d.pdfminer.avail /\ d.pikepdf.miner.raises
  THEN d.pikepdf.miner.err
  ELSE IF d.pikepdf.avail /\ d.pikepdf.raises THEN d.pikepdf.err
  ELSE IF d.fitz.avail /\ d.fitz.raises THEN d.fitz.err
  ELSE IF d.pdfminer.avail /\ d.pdfminer.raises THEN d.pdfminer.err
  ELSE IF d.pypdf2.raises THEN d.pypdf2.err
  ELSE EmptyTextMsg

\* C4 as stated: on failure src/rescaner.py returns the message of the last
\* attempt that raised, or the empty-text message when none raised
C4_ReturnsLastError ==
  (pc = "extracted" /\ variant = "rescaner" /\ ~res.ok) =>
    res.text = ClaimedLastError(arg)

\* C4 amended: on failure src/rescaner.py returns ok = false with the message
\* of the PyPDF2 attempt when that attempt raised, and the empty-text message
\* otherwise; the errors of the later attempts are dropped
C4_ReturnsPrimaryError ==
  (pc = "extracted" /\ variant = "rescaner") =>
    /\ ~res.ok <=>
         ~(PrimaryAccepts(arg) \/ MinerAccepts(arg) \/ FitzAccepts(arg)
           \/ DecryptMinerAccepts(arg) \/ DecryptFitzAccepts(arg))
    /\ ~res.ok =>
         res.text = (IF arg.pypdf2.raises THEN arg.pypdf2.err
                     ELSE EmptyTextMsg)

\* PyPDF2 found no text, pdfminer raised, nothing else is installed
C4_Witness ==
  /\ pc = "extracted"
  /\ variant = "rescaner"
  /\ ~arg.pypdf2.raises
  /\ arg.pdfminer.avail /\ arg.pdfminer.raises
  /\ ~res.ok /\ res.text = EmptyTextMsg

\* ------------------------------------------------------- aggregate reports
YearMin == 2019
YearMax == 2024
Years == YearMin..YearMax

DigitVal(c) ==
  IF c = "0" THEN 0 ELSE IF c = "1" THEN 1 ELSE IF c = "2" THEN 2
  ELSE IF c = "8" THEN 8 ELSE 9

\* (19|20)\d{2} matches at position p of name
YearMatchAt(name, p) ==
  /\ p + 3 <= Len(name)
  /\ <<name[p], name[p + 1]>> \in {<<"1", "9">>, <<"2", "0">>}
  /\ IsDigit(name[p + 2]) /\ IsDigit(name[p + 3])

\* re.search(r"(19|20)\d{2}", name) from position p: int(m.group(0)) of the
\* leftmost match, 0 when there is none
RECURSIVE YearSearch(_, _)
YearSearch(name, p) ==
  IF p + 3 > Len(name) THEN 0
  ELSE IF YearMatchAt(name, p)
       THEN 1000 * DigitVal(name[p]) + 100 * DigitVal(name[p + 1])
            + 10 * DigitVal(name[p + 2]) + DigitVal(name[p + 3])
       ELSE YearSearch(name, p + 1)

\* faulty variant: a year outside the range is counted under the nearest year of it
AggregationYearClamped(filename) ==
  LET year == YearSearch(filename, 1)
  IN IF year = 0 THEN 0
     ELSE IF year < YearMin THEN YearMin
     ELSE IF year > YearMax THEN YearMax ELSE year

\* faulty variant: the first match that is a year of the range is taken, not
\* the leftmost match
RECURSIVE YearSearchInRange(_, _)
YearSearchInRange(name, p) ==
  IF p + 3 > Len(name) THEN 0
  ELSE IF YearMatchAt(name, p) /\ YearSearch(name, p) \in Years
       THEN YearSearch(name, p)
       ELSE YearSearchInRange(name, p + 1)

AggregationYearAnyMatch(filename) == YearSearchInRange(filename, 1)

\* find_year_from_filename: the year, 0 for None
find_year_from_filename(name) ==
  LET y == YearSearch(name, 1)
  IN IF y # 0 /\ (YearMin <= y /\ y <= YearMax) THEN y ELSE 0

\* the year a row is aggregated under, 0 when the row is skipped
AggregationYear(filename) ==
  LET year == YearSearch(filename, 1)
  IN IF year = 0 THEN 0
     ELSE IF ~(YearMin <= year /\ year <= YearMax) THEN 0 ELSE year

EmptyAgg == [k \in {} |-> 0]
ZeroYears == [y \in Years |-> 0]

\* faulty variant: the count replaces the year's value instead of adding to it
AddCountOverwrite(agg, key, year, count) ==
  LET a == IF key \in DOMAIN agg THEN agg ELSE agg @@ (key :> ZeroYears)
  IN [a EXCEPT ![key][year] = count]

\* "if key not in agg: agg[key] = {...}; agg[key][year] += int(count)"
AddCount(agg, key, year, count) ==
  LET a == IF key \in DOMAIN agg THEN agg ELSE agg @@ (key :> ZeroYears)
  IN [a EXCEPT ![key][year] = @ + count]

\* the loop of generate_variable_report over the rows
RECURSIVE VariableFold(_, _)
VariableFold(rs, agg) ==
  IF rs = <<>> THEN agg
  ELSE LET r == Head(rs)
           year == AggregationYear(r.filename)
       IN IF year = 0 THEN VariableFold(Tail(rs), agg)
          ELSE VariableFold(Tail(rs),
                 AddCount(agg, <<r.main_folder, r.sub_folder, r.cat,
                                 r.keyword>>, year, r.count))

generate_variable_report(rs) == VariableFold(rs, EmptyAgg)

\* the loop of generate_report_by_company over the rows
RECURSIVE CompanyFold(_, _)
CompanyFold(rs, agg) ==
  IF rs = <<>> THEN agg
  ELSE LET r == Head(rs)
           year == AggregationYear(r.filename)
       IN IF year = 0 THEN CompanyFold(Tail(rs), agg)
          ELSE CompanyFold(Tail(rs),
                 AddCount(agg, <<r.main_folder, r.sub_folder>>, year,
                          r.count))

\* faulty variant: only the rows of the first row's category are summed
generate_report_by_company_one_category(rs) ==
  CompanyFold(SelectSeq(rs, LAMBDA r : r.cat = rs[1].cat), EmptyAgg)

generate_report_by_company(rs) == CompanyFold(rs, EmptyAgg)

\* ------------------------------------------------- order of the written rows
\* the keys of a dict in insertion order: each key once, at its first place
RECURSIVE FirstSeen(_, _)
FirstSeen(keys, seen) ==
  IF keys = <<>> THEN <<>>
  ELSE IF Head(keys) \in seen THEN FirstSeen(Tail(keys), seen)
       ELSE <<Head(keys)>> \o FirstSeen(Tail(keys), seen \cup {Head(keys)})

\* the rows that reach "agg[key][year] += int(count)"
RowsInRange(rs) == SelectSeq(rs, LAMBDA r : AggregationYear(r.filename) # 0)

\* agg.keys() of generate_variable_report, of generate_report_by_company
VariableKeys(rs) ==
  LET rr == RowsInRange(rs)
  IN FirstSeen([i \in 1..Len(rr) |-> <<rr[i].main_folder, rr[i].sub_folder,
                                       rr[i].cat, rr[i].keyword>>], {})
CompanyKeys(rs) ==
  LET rr == RowsInRange(rs)
  IN FirstSeen([i \in 1..Len(rr) |-> <<rr[i].main_folder, rr[i].sub_folder>>],
               {})

\* tuple < tuple on tuples of strings: element by element
RECURSIVE TupleLess(_, _)
TupleLess(a, b) ==
  IF b = <<>> THEN FALSE
  ELSE IF a = <<>> THEN TRUE
  ELSE IF Head(a) # Head(b) THEN StrLess(Head(a), Head(b))
  ELSE TupleLess(Tail(a), Tail(b))

\* key=lambda k: (k[0][0].lower(), k[0][1].lower())
LabelKey(k) == <<Lower(k[1]), Lower(k[2])>>

\* the comparison of two items: on the lowercased labels where the sort has
\* the key function (main.py), on the items as they are where it has none
\* (rescaner.py; two items never have the same key)
ItemLess(v, a, b) ==
  IF v = "main" THEN TupleLess(LabelKey(a), LabelKey(b)) ELSE TupleLess(a, b)

\* one key put into a sorted list after every entry that is not greater
RECURSIVE InsertSorted(_, _, _)
InsertSorted(v, sorted, k) ==
  IF sorted = <<>> THEN <<k>>
  ELSE IF ItemLess(v, k, Head(sorted)) THEN <<k>> \o sorted
  ELSE <<Head(sorted)>> \o InsertSorted(v, Tail(sorted), k)

\* sorted(): stable, so entries that compare equal keep their input order
RECURSIVE StableSort(_, _, _)
StableSort(v, keys, acc) ==
  IF keys = <<>> THEN acc
  ELSE StableSort(v, Tail(keys), InsertSorted(v, acc, Head(keys)))

\* sorted(agg.items(), key=...) in main.py, sorted(agg.items()) in rescaner.py
SortedKeys(v, keys) == StableSort(v, keys, <<>>)

\* the data rows the "with open(...)" block writes, top to bottom
WrittenRows(keys, agg) ==
  [i \in 1..Len(keys) |-> [key |-> keys[i], years |-> agg[keys[i]]]]

write_variable_report(v, rs) ==
  WrittenRows(SortedKeys(v, VariableKeys(rs)), generate_variable_report(rs))

write_report_by_company(v, rs) ==
  WrittenRows(SortedKeys(v, CompanyKeys(rs)), generate_report_by_company(rs))

\* ======================================================= specification Spec
\* runs of main() on one folder: patterns, discovery, the scan loop one
\* document at a time, the reports; then a later run on the same folder
\* page texts of a readable document: "a b" and "a-<line break>b a"
PlainPages == <<<<"a", " ", "b">>, <<"a", "-", "\n", "b", " ", "a">>>>
CopyText == <<"a", "a", " ", "a">>

Page(t) == [raises |-> FALSE, text |-> t]
Reads(ps) == [raises |-> FALSE, err |-> <<>>, pages |-> ps]
PyRaises == [raises |-> TRUE, err |-> ErrPyPDF2, pages |-> <<>>]
MinerText(t) == [avail |-> TRUE, raises |-> FALSE, err |-> <<>>, text |-> t]
MinerRaises == [avail |-> TRUE, raises |-> TRUE, err |-> ErrMiner, text |-> <<>>]
FitzRaises == [avail |-> TRUE, raises |-> TRUE, err |-> ErrFitz, pages |-> <<>>]
PikeRaises == [avail |-> TRUE, raises |-> TRUE, err |-> ErrPike,
               miner |-> NoMinerRun, fitz |-> NoFitzRun]
PikeSaves(t) == [avail |-> TRUE, raises |-> FALSE, err |-> <<>>,
                 miner |-> [raises |-> FALSE, err |-> <<>>, text |-> t],
                 fitz |-> NoFitzRun]

\* the kinds of document content of the model, as the backends see them:
\* readable text, unreadable by every backend, encrypted and readable once
\* decrypted, image-only (no text from any backend)
ProfileIds == {"text", "broken", "enc", "scanimg"}
Profile(id) ==
  CASE id = "text" ->
         [pypdf2 |-> Reads(<<Page(PlainPages[1]), Page(PlainPages[2])>>),
          pdfminer |-> NoMiner, fitz |-> NoFitz, pikepdf |-> NoPike]
    [] id = "broken" ->
         [pypdf2 |-> PyRaises, pdfminer |-> MinerRaises, fitz |-> FitzRaises,
          pikepdf |-> PikeRaises]
    [] id = "enc" ->
         [pypdf2 |-> PyRaises, pdfminer |-> MinerRaises, fitz |-> NoFitz,
          pikepdf |-> PikeSaves(CopyText)]
    [] OTHER ->
         [pypdf2 |-> Reads(<<Page(<<>>)>>), pdfminer |-> MinerText(<<" ">>),
          fitz |-> NoFitz, pikepdf |-> PikeSaves(<<>>)]

\* the content of the decrypted copy of a document: the decrypted "enc"
\* reads as plain text, the copy of an image-only document stays image-only
CopyProfile(id) == IF id = "enc" THEN "text" ELSE id

G1 == <<"B", "a", " ", "(", "x", ")">>
FolderA == <<"A", "c", " ", "(", "A", ")">>
FolderB == <<"A", "c", " ", "(", "B", ")">>
FolderC == <<"A", "c">>
Name(stem) == stem \o DotPdf
DocPaths ==
  {[dir |-> <<G1, FolderA>>, name |-> Name(<<"r", "2", "0", "2", "0">>)],
   [dir |-> <<G1, FolderA>>, name |-> Name(<<"t", "2", "0", "2", "1">>)],
   [dir |-> <<G1, FolderB>>, name |-> Name(<<"r", "2", "0", "2", "0">>)],
   [dir |-> <<>>, name |-> Name(<<"r", "2", "0", "1", "8">>)],
   [dir |-> <<G1, FolderC>>, name |-> Name(<<"x">>)]}
OtherFile == [dir |-> <<>>, name |-> <<"m", ".", "t", "x", "t">>,
              prof |-> "none"]

Taxonomies ==
  {<<[cat |-> <<"c", "1">>, terms |-> <<<<"a">>, <<"B">>>>],
     [cat |-> <<"c", "2">>, terms |-> <<<<"a", " ", "b">>, <<" ">>, <<"a">>>>]>>}

\* the folder contents of the model: up to MaxDocs documents, one other file
Folders ==
  UNION {{{[dir |-> p.dir, name |-> p.name, prof |-> c[p]] : p \in D}
          \cup {OtherFile} : c \in [D -> ProfileIds]}
         : D \in {X \in SUBSET DocPaths : Cardinality(X) <= MaxDocs}}

FileAt(files, p) == CHOOSE f \in files : PathOf(f) = p

\* open(path, "w") or pdf.save(path): the file at that path is replaced
WriteFile(files, f) == {g \in files : PathOf(g) # PathOf(f)} \cup {f}

DecryptedSuffix ==
  <<"_", "d", "e", "c", "r", "y", "p", "t", "e", "d">> \o DotPdf

\* tmp = str(path_pdf) + "_decrypted.pdf"
DecryptedCopy(f) ==
  [dir |-> f.dir, name |-> f.name \o DecryptedSuffix,
   prof |-> CopyProfile(f.prof)]

Init ==
  /\ pc = "start"
  /\ variant \in {"main", "rescaner"}
  /\ match_mode \in {"whole", "substring"}
  /\ arg = <<>> /\ res = <<>>
  /\ fs \in Folders
  /\ taxonomy \in Taxonomies
  /\ patterns = <<>> /\ pdf_files = <<>> /\ idx = 0
  /\ rows = <<>> /\ log_lines = <<>> /\ written = <<>>
  /\ run = 1

\* main(): patterns = build_patterns(keywords, args.match)
BuildPatterns ==
  /\ pc = "start"
  /\ patterns' = build_patterns(taxonomy, match_mode)
  /\ pc' = "discover"
  /\ UNCHANGED <<variant, match_mode, arg, res, fs, taxonomy, pdf_files, idx,
                 rows, log_lines, written, run>>

\* scan_folder_for_pdfs up to the loop: the sorted documents; no document
\* returns at once
Discover ==
  /\ pc = "discover"
  /\ pdf_files' = SortPaths(RglobPdf(fs))
  /\ idx' = 1
  /\ rows' = <<>>
  /\ log_lines' = <<>>
  /\ pc' = IF RglobPdf(fs) = {} THEN "scanned" ELSE "scan"
  /\ UNCHANGED <<variant, match_mode, arg, res, fs, taxonomy, patterns,
                 written, run>>

\* one pass of the loop body
ScanDocument ==
  /\ pc = "scan"
  /\ idx <= Len(pdf_files)
  /\ LET f == FileAt(fs, pdf_files[idx])
         one == ScanOne(variant, match_mode, patterns, pdf_files[idx],
                        Profile(f.prof))
     IN /\ rows' = rows \o one.rows
        /\ log_lines' = Append(log_lines, one.log)
        /\ fs' = IF one.tmp THEN WriteFile(fs, DecryptedCopy(f)) ELSE fs
        /\ idx' = NextIndex(idx, one.ok, Len(pdf_files))
  /\ UNCHANGED <<pc, variant, match_mode, arg, res, taxonomy, patterns,
                 pdf_files, written, run>>

\* the loop is over: return rows, log_lines
ScanReturn ==
  /\ pc = "scan"
  /\ idx > Len(pdf_files)
  /\ pc' = "scanned"
  /\ UNCHANGED <<variant, match_mode, arg, res, scanvars>>

\* the files main() writes into the target folder (names without their
\* timestamps; the aggregate reports are .csv files like the detailed one)
ReportFiles ==
  {[dir |-> <<>>, prof |-> "none",
    name |-> <<"r", "e", "p", "o", "r", "t", ".", "c", "s", "v">>],
   [dir |-> <<>>, prof |-> "none",
    name |-> <<"s", "u", "m", "m", "a", "r", "y", ".", "t", "x", "t">>],
   [dir |-> <<>>, prof |-> "none",
    name |-> <<"l", "o", "g", ".", "t", "x", "t">>]}

\* main() after the scan: the detailed report, the summary, the log and the
\* two aggregate reports
WriteReports ==
  /\ pc = "scanned"
  /\ written' =
       [detail |-> rows,
        summary |-> Cardinality({rows[i].filename : i \in 1..Len(rows)}),
        log |-> log_lines,
        variable_report |-> generate_variable_report(rows),
        report_by_company |-> generate_report_by_company(rows),
        variable_rows |-> write_variable_report(variant, rows),
        company_rows |-> write_report_by_company(variant, rows)]
  /\ fs' = fs \cup ReportFiles
  /\ pc' = "done"
  /\ UNCHANGED <<variant, match_mode, arg, res, taxonomy, patterns, pdf_files,
                 idx, rows, log_lines, run>>

\* the program is run again on the same folder
Rerun ==
  /\ pc = "done"
  /\ run < MaxRuns
  /\ run' = run + 1
  /\ pc' = "start"
  /\ patterns' = <<>> /\ pdf_files' = <<>> /\ idx' = 0
  /\ rows' = <<>> /\ log_lines' = <<>> /\ written' = <<>>
  /\ UNCHANGED <<variant, match_mode, arg, res, fs, taxonomy>>

Next ==
  \/ BuildPatterns
  \/ Discover
  \/ ScanDocument
  \/ ScanReturn
  \/ WriteReports
  \/ Rerun

Spec == Init /\ [][Next]_vars

\* ----------------------------------------------------------- claims on Spec
NumPatterns == Len(patterns)
NumDocs == Len(pdf_files)

\* the rows at the positions of the d-th document of a scan
RowsOfDoc(rs, d, np) == SubSeq(rs, (d - 1) * np + 1, d * np)

\* extraction of the document at path p fails
Fails(p) == ~extract_text_from_pdf(variant, Profile(FileAt(fs, p).prof)).ok

\* C1: after the scan the row list holds exactly one row for every
\* (document, pattern) pair, |rows| = |D| * |P|, in no other rows, and every
\* row of a document whose extraction failed has count 0
C1_OneRowPerPair ==
  pc = "scanned" =>
    /\ Len(rows) = NumDocs * NumPatterns
    /\ \A d \in 1..NumDocs : \A j \in 1..NumPatterns :
         LET r == rows[(d - 1) * NumPatterns + j]
         IN /\ r.filename = pdf_files[d].name
            /\ r.main_folder = determine_main_folder(pdf_files[d].dir)
            /\ r.sub_folder = determine_company_name(pdf_files[d].dir)
            /\ r.cat = patterns[j].cat
            /\ r.keyword = patterns[j].term
            /\ Fails(pdf_files[d]) => r.count = 0

\* two documents, one failed and one with a match
C1_Witness ==
  /\ pc = "scanned"
  /\ NumDocs = 2 /\ NumPatterns >= 2
  /\ \E d \in 1..NumDocs : Fails(pdf_files[d])
  /\ \E i \in 1..Len(rows) : rows[i].count > 0

\* the rows a scan of the documents at paths ps gives, by document
RECURSIVE ScanRows(_)
ScanRows(ps) ==
  IF ps = <<>> THEN <<>>
  ELSE ScanOne(variant, match_mode, patterns, Head(ps),
               Profile(FileAt(fs, Head(ps)).prof)).rows
       \o ScanRows(Tail(ps))

\* the scan of the folder without the document at position f
ScanWithout(f) ==
  ScanRows(SortPaths({pdf_files[d] : d \in 1..NumDocs} \ {pdf_files[f]}))

\* C2: a failing document neither stops the scan nor changes the rows of
\* the others: every document is processed, and each non-failing document has
\* the rows it gets in a scan of the folder without the failing document
C2_FailureIsolated ==
  pc = "scanned" =>
    \A f \in 1..NumDocs : Fails(pdf_files[f]) =>
      /\ Len(log_lines) = NumDocs
      /\ \A d \in 1..NumDocs :
           /\ log_lines[d].filename = pdf_files[d].name
           /\ Len(RowsOfDoc(rows, d, NumPatterns)) = NumPatterns
           /\ (d # f /\ ~Fails(pdf_files[d])) =>
                RowsOfDoc(rows, d, NumPatterns) =
                  RowsOfDoc(ScanWithout(f), IF d < f THEN d ELSE d - 1,
                            NumPatterns)

\* the first document fails, the second is scanned and has a match
C2_Witness ==
  /\ pc = "scanned"
  /\ NumDocs >= 2
  /\ Fails(pdf_files[1]) /\ ~Fails(pdf_files[2])
  /\ log_lines[1].status = "Error" /\ log_lines[2].status = "Done"
  /\ \E j \in 1..NumPatterns : RowsOfDoc(rows, 2, NumPatterns)[j].count > 0

\* C5: the decrypted copy is no document of a later scan: no scan
\* enumerates a file written by the decrypt path, and no row names one
C5_CopyNotScanned ==
  /\ \A d \in 1..NumDocs : ~EndsWith(pdf_files[d].name, DecryptedSuffix)
  /\ \A i \in 1..Len(rows) : ~EndsWith(rows[i].filename, DecryptedSuffix)

RECURSIVE SumOver(_, _)
SumOver(rs, I) ==
  IF I = {} THEN 0
  ELSE LET i == CHOOSE i \in I : TRUE
       IN rs[i].count + SumOver(rs, I \ {i})

\* the year the filename yields: the first (19|20)dd of it
FilenameYear(name) == YearSearch(name, 1)
Key4(r) == <<r.main_folder, r.sub_folder, r.cat, r.keyword>>
Key2(r) == <<r.main_folder, r.sub_folder>>
InRange(rs) == {i \in 1..Len(rs) : FilenameYear(rs[i].filename) \in Years}

\* C6: the category+keyword report has a key exactly for the keys with a row
\* of a year in 2019..2024, each with the six years, every year holding the
\* sum of the counts of the key's rows of that year (0 without such a row)
C6_VariableReportSums ==
  pc = "done" =>
    LET vr == written.variable_report
    IN /\ DOMAIN vr = {Key4(rows[i]) : i \in InRange(rows)}
       /\ \A k \in DOMAIN vr :
            /\ DOMAIN vr[k] = Years
            /\ \A y \in Years :
                 vr[k][y] = SumOver(rows, {i \in InRange(rows) :
                               /\ Key4(rows[i]) = k
                               /\ FilenameYear(rows[i].filename) = y})

\* two documents of one folder and one year, both with matches of a keyword
C6_Witness ==
  /\ pc = "done"
  /\ \E k \in DOMAIN written.variable_report : \E y \in Years :
       /\ written.variable_report[k][y] >= 2
       /\ \E i, j \in InRange(rows) :
            /\ i # j /\ Key4(rows[i]) = k /\ Key4(rows[j]) = k
            /\ rows[i].count > 0 /\ rows[j].count > 0
            /\ written.variable_report[k][y] = rows[i].count + rows[j].count

RECURSIVE SumKeys(_, _, _)
SumKeys(vr, K, y) ==
  IF K = {} THEN 0
  ELSE LET k == CHOOSE k \in K : TRUE
       IN vr[k][y] + SumKeys(vr, K \ {k}, y)

\* C7: the group report holds, for every group and year, the sum of the
\* counts of all rows of the group and year, which is the sum of the values
\* the category+keyword report holds for the keys of that group
C7_CompanyReportSums ==
  pc = "done" =>
    LET bc == written.report_by_company
        vr == written.variable_report
    IN /\ DOMAIN bc = {Key2(rows[i]) : i \in InRange(rows)}
       /\ \A g \in DOMAIN bc : \A y \in Years :
            /\ bc[g][y] = SumOver(rows, {i \in InRange(rows) :
                             /\ Key2(rows[i]) = g
                             /\ FilenameYear(rows[i].filename) = y})
            /\ bc[g][y] = SumKeys(vr, {k \in DOMAIN vr :
                                         <<k[1], k[2]>> = g}, y)

\* a group whose total of a year adds up several keywords
C7_Witness ==
  /\ pc = "done"
  /\ \E g \in DOMAIN written.report_by_company : \E y \in Years :
       \E k1, k2 \in DOMAIN written.variable_report :
         /\ k1 # k2 /\ <<k1[1], k1[2]>> = g /\ <<k2[1], k2[2]>> = g
         /\ written.variable_report[k1][y] > 0
         /\ written.variable_report[k2][y] > 0
         /\ written.report_by_company[g][y] >=
              written.variable_report[k1][y] + written.variable_report[k2][y]

\* rs without its i-th row
Without(rs, i) == SubSeq(rs, 1, i - 1) \o SubSeq(rs, i + 1, Len(rs))

\* the value an aggregate holds for a key and a year, 0 for a missing key
ValueAt(agg, k, y) == IF k \in DOMAIN agg THEN agg[k][y] ELSE 0

\* what a row adds at key k and year y: the aggregate of all rows against
\* the aggregate of the rows without it
Adds(with, without, k, y) == ValueAt(with, k, y) - ValueAt(without, k, y)

AllKeys4 == {Key4(rows[i]) : i \in 1..Len(rows)}
AllKeys2 == {Key2(rows[i]) : i \in 1..Len(rows)}

\* C8: a row whose filename has no (19|20)dd, or a year outside 2019..2024,
\* is in the detailed report and adds nothing to either aggregate (the
\* aggregates are those of the rows without it); a row with a year in
\* 2019..2024 adds its count to that year of its key and nothing elsewhere
C8_YearFilter ==
  pc = "done" =>
    \A i \in 1..Len(rows) :
      LET r == rows[i]
          year == FilenameYear(r.filename)
          vr == generate_variable_report(Without(rows, i))
          bc == generate_report_by_company(Without(rows, i))
      IN /\ written.detail[i] = r
         /\ year \notin Years =>
              /\ vr = written.variable_report
              /\ bc = written.report_by_company
         /\ year \in Years =>
              /\ \A k \in AllKeys4 : \A y \in Years :
                   Adds(written.variable_report, vr, k, y)
                     = IF k = Key4(r) /\ y = year THEN r.count ELSE 0
              /\ \A k \in AllKeys2 : \A y \in Years :
                   Adds(written.report_by_company, bc, k, y)
                     = IF k = Key2(r) /\ y = year THEN r.count ELSE 0

\* a document of 2018 with matches beside a document of 2021 with matches
C8_Witness ==
  /\ pc = "done"
  /\ \E i, j \in 1..Len(rows) :
       /\ FilenameYear(rows[i].filename) = 2018 /\ rows[i].count > 0
       /\ written.detail[i] = rows[i]
       /\ Key2(rows[i]) \notin DOMAIN written.report_by_company
       /\ FilenameYear(rows[j].filename) = 2021 /\ rows[j].count > 0
       /\ written.report_by_company[Key2(rows[j])][2021] >= rows[j].count

\* ----------------------------------------------------------- order of the rows
\* row i belongs to document DocIndex(i) and to pattern PatIndex(i) when the
\* rows come document by document, pattern by pattern
DocIndex(i) == ((i - 1) \div NumPatterns) + 1
PatIndex(i) == ((i - 1) % NumPatterns) + 1

\* the rows of one document are contiguous and follow the pattern list
RowsByDocumentThenPattern ==
  \A i \in 1..Len(rows) :
    /\ DocIndex(i) <= NumDocs
    /\ rows[i].filename = pdf_files[DocIndex(i)].name
    /\ rows[i].sub_folder = determine_company_name(pdf_files[DocIndex(i)].dir)
    /\ rows[i].cat = patterns[PatIndex(i)].cat
    /\ rows[i].keyword = patterns[PatIndex(i)].term

\* C13 as stated: the rows come document by document in the lexicographic
\* order of the documents' full path strings, the rows of one document are
\* contiguous and follow the pattern list.
C13_RowsInPathStringOrder ==
  /\ RowsByDocumentThenPattern
  /\ \A i \in 1..NumDocs : \A j \in (i + 1)..NumDocs :
       StrLess(PathString(pdf_files[i]), PathString(pdf_files[j]))

\* C13 amended: the rows come document by document in the order of the sorted
\* Path objects, which compares the paths part by part (folder names first,
\* then the file name, each as a string); the rows of one document are
\* contiguous and follow the pattern list.
C13_RowsInPathPartsOrder ==
  /\ RowsByDocumentThenPattern
  /\ \A i \in 1..NumDocs : \A j \in (i + 1)..NumDocs :
       PartsLess(PathParts(pdf_files[i]), PathParts(pdf_files[j]))

\* reached: a scan of two documents in sibling folders, one folder's name a
\* prefix of the other's, has returned its rows
C13_Witness ==
  /\ pc = "scanned"
  /\ NumDocs = 2
  /\ pdf_files[1].dir = <<G1, FolderC>>
  /\ pdf_files[2].dir = <<G1, FolderA>>
  /\ Len(rows) = 2 * NumPatterns
  /\ NumPatterns >= 2

\* ================================================= specification SpecMatch
\* normalisation followed by counting, on bounded raw texts and keywords
\* (the helpers are the same in both files, so one variant is explored)
RawChars == {"a", "A", "-", " ", "."}
KwChars == {"a", "A", "-", " ", "."}
RawTexts == SeqsUpTo(RawChars, MaxRawLen)
KeywordTexts == {Strip(k) : k \in SeqsUpTo(KwChars, MaxKwLen)} \ {<<>>}

InitMatch ==
  /\ IdleScan
  /\ pc = "raw"
  /\ variant = "main"
  /\ match_mode \in {"whole", "substring"}
  /\ arg \in [raw : RawTexts, kw : KeywordTexts]
  /\ res = <<>>

Normalize ==
  /\ pc = "raw"
  /\ pc' = "normalized"
  /\ res' = normalize_extracted_text(arg.raw)
  /\ UNCHANGED <<variant, match_mode, arg, scanvars>>

Count ==
  /\ pc = "normalized"
  /\ pc' = "counted"
  /\ res' = [text |-> res,
             cnt |-> count_matches_in_text(res,
                        compile_pattern(arg.kw, match_mode), match_mode)]
  /\ UNCHANGED <<variant, match_mode, arg, scanvars>>

NextMatch == Normalize \/ Count

SpecMatch == InitMatch /\ [][NextMatch]_vars

\* ------------------------------------------------------ claims on SpecMatch
\* the lowercased keyword stands literally at position p of text
OccursAt(kw, text, p) ==
  /\ p + Len(kw) - 1 <= Len(text)
  /\ SubSeq(text, p, p + Len(kw) - 1) = Lower(kw)

\* the occurrence at p has no word character right before or right after it
FreeStanding(kw, text, p) ==
  /\ p = 1 \/ ~IsWord(text[p - 1])
  /\ p + Len(kw) > Len(text) \/ ~IsWord(text[p + Len(kw)])

\* C9: in whole mode the count is the number of occurrences of the keyword
\* whose neighbouring characters are not word characters, for every keyword,
\* also one that starts or ends with a non-word character
C9_WholeCountsFreeStanding ==
  (pc = "counted" /\ match_mode = "whole") =>
    res.cnt = Cardinality({p \in 1..Len(res.text) :
                 OccursAt(arg.kw, res.text, p)
                 /\ FreeStanding(arg.kw, res.text, p)})

\* C10: in substring mode the count is the number of start positions at which
\* the lowercased keyword occurs literally, overlaps included, and the count
\* of an empty text is 0 in both modes
C10_SubstringCountsOverlaps ==
  pc = "counted" =>
    /\ match_mode = "substring" =>
         res.cnt = Cardinality({p \in 1..Len(res.text) :
                      OccursAt(arg.kw, res.text, p)})
    /\ res.text = <<>> => res.cnt = 0

\* "aa" in "aaaa" counted three times
C10_Witness ==
  /\ pc = "counted"
  /\ match_mode = "substring"
  /\ arg.kw = <<"a", "a">>
  /\ res.text = <<"a", "a", "a", "a">>
  /\ res.cnt = 3

\* ============================================== specification SpecPatterns
\* build_patterns on its own: the taxonomy is drawn from bounded sets, one
\* BuildOnly step compiles it. arg holds the taxonomy, res the pattern list.
MaxTerms == 2

CatNames == << <<"c","1">>, <<"c","2">> >>

TermPool == { <<" ">>, <<"a">>, <<" ","a"," ">>, <<"B">> }

\* a dict has each category once: the taxonomies are the prefixes of CatNames,
\* each category with any keyword list of at most MaxTerms entries
PatternTaxonomies ==
  UNION { [ 1..n -> { [cat |-> c, terms |-> ts] :
                        c \in {CatNames[i] : i \in 1..Len(CatNames)},
                        ts \in SeqsUpTo(TermPool, MaxTerms) } ]
          : n \in 0..Len(CatNames) }

DictTaxonomies ==
  { t \in PatternTaxonomies : \A i \in 1..Len(t) : t[i].cat = CatNames[i] }

InitPatterns ==
  /\ IdleScan
  /\ pc = "taxonomy"
  /\ variant \in {"main", "rescaner"}
  /\ match_mode \in {"whole", "substring"}
  /\ arg \in DictTaxonomies
  /\ res = <<>>

BuildOnly ==
  /\ pc = "taxonomy"
  /\ pc' = "built"
  /\ res' = build_patterns(arg, match_mode)
  /\ UNCHANGED <<variant, match_mode, arg>>
  /\ UNCHANGED scanvars

NextPatterns == BuildOnly

SpecPatterns == InitPatterns /\ [][NextPatterns]_vars

\* the (category, keyword) positions of the taxonomy whose keyword is not
\* blank, and the place each of them has when they are read category by
\* category and keyword by keyword
KeptTerms(tax) ==
  { p \in (1..Len(tax)) \X (1..MaxTerms + 1) :
      /\ p[2] <= Len(tax[p[1]].terms)
      /\ Strip(tax[p[1]].terms[p[2]]) # <<>> }

TermBefore(p, q) == p[1] < q[1] \/ (p[1] = q[1] /\ p[2] < q[2])

TermRank(tax, p) ==
  Cardinality({ q \in KeptTerms(tax) : TermBefore(q, p) }) + 1

\* C11: build_patterns returns exactly one pattern per keyword that is not
\* blank after trimming and none for a blank one, in category order and then
\* keyword order; a keyword listed in two categories gives two patterns, one
\* per category.
C11_OnePatternPerKeyword ==
  pc = "built" =>
    /\ Len(res) = Cardinality(KeptTerms(arg))
    /\ \A p \in KeptTerms(arg) :
         LET r == res[TermRank(arg, p)]
             t == Strip(arg[p[1]].terms[p[2]])
         IN /\ r.cat = arg[p[1]].cat
            /\ r.term = t
            /\ r.pat = compile_pattern(t, match_mode)

\* reached: a taxonomy with a blank keyword and the same keyword in both
\* categories has been compiled
C11_Witness ==
  /\ pc = "built"
  /\ Len(arg) = 2
  /\ \E k \in 1..Len(arg[1].terms) : Strip(arg[1].terms[k]) = <<>>
  /\ \E k \in 1..Len(arg[1].terms), j \in 1..Len(arg[2].terms) :
       /\ arg[1].terms[k] = arg[2].terms[j]
       /\ Strip(arg[1].terms[k]) # <<>>
  /\ Len(res) >= 2

\* ============================================= specification SpecNormalize
\* normalize_extracted_text on its own, on raw values that hold line breaks,
\* carriage returns, tabs, hyphens and both cases. A raw value is a record:
\* none marks Python's None, s is the string otherwise.
NormChars == {"a", "A", "-", " ", "\n", "\t", "\r"}

RawValues ==
  {[none |-> TRUE, s |-> <<>>]}
  \cup {[none |-> FALSE, s |-> t] : t \in SeqsUpTo(NormChars, MaxRawLen)}

\* "if not raw": None and the empty string are both falsy
NotRaw(v) == v.none \/ v.s = <<>>

normalize_value(v) ==
  IF NotRaw(v) THEN <<>> ELSE normalize_extracted_text(v.s)

InitNormalize ==
  /\ IdleScan
  /\ pc = "value"
  /\ variant \in {"main", "rescaner"}
  /\ match_mode = "whole"
  /\ arg \in RawValues
  /\ res = <<>>

NormalizeValue ==
  /\ pc = "value"
  /\ pc' = "clean"
  /\ res' = normalize_value(arg)
  /\ UNCHANGED <<variant, match_mode, arg>>
  /\ UNCHANGED scanvars

NextNormalize == NormalizeValue

SpecNormalize == InitNormalize /\ [][NextNormalize]_vars

\* C12: whatever the raw input, the normalized text has no newline, no two
\* consecutive spaces, no whitespace at either end and no uppercase letter;
\* an empty or absent input gives the empty string.
C12_NormalForm ==
  pc = "clean" =>
    /\ \A i \in 1..Len(res) : res[i] # "\n" /\ res[i] \notin UpperLetters
    /\ \A i \in 1..(Len(res) - 1) : ~(res[i] = " " /\ res[i + 1] = " ")
    /\ res # <<>> => ~IsSpace(res[1]) /\ ~IsSpace(res[Len(res)])
    /\ NotRaw(arg) => res = <<>>

\* reached: a raw text with a hyphen before a line break, a tab, a carriage
\* return and an uppercase letter was normalized to a non-empty text
C12_Witness ==
  /\ pc = "clean"
  /\ ~arg.none
  /\ \E i \in 1..(Len(arg.s) - 1) : arg.s[i] = "-" /\ arg.s[i + 1] = "\n"
  /\ \E i \in 1..Len(arg.s) : arg.s[i] = "A"
  /\ \E i \in 1..Len(arg.s) : arg.s[i] \in {"\t", "\r"}
  /\ res # <<>>

\* ================================================== specification SpecReports
\* the two aggregate reports on their own: the detailed rows are drawn from
\* bounded sets (labels of both cases, years in and out of range), one
\* WriteAggregates step writes both reports. arg holds the rows, res the
\* written data rows.
MaxAggRows == 2

AggLabels == { <<"a">>, <<"B">> }
AggSubLabels == { <<"a">>, <<"A">>, <<"B">> }
AggNames == { Name(<<"r", "2", "0", "2", "0">>), Name(<<"r", "2", "0", "1", "8">>) }

AggRows ==
  { Row(m, c, n, <<"c", "1">>, k, 1) :
      m \in AggLabels, c \in AggSubLabels, n \in AggNames,
      k \in { <<"a">>, <<"b">> } }

InitReports ==
  /\ IdleScan
  /\ pc = "rows"
  /\ variant \in {"main", "rescaner"}
  /\ match_mode = "whole"
  /\ arg \in SeqsUpTo(AggRows, MaxAggRows)
  /\ res = <<>>

WriteAggregates ==
  /\ pc = "rows"
  /\ pc' = "reports"
  /\ res' = [variable_rows |-> write_variable_report(variant, arg),
             company_rows |-> write_report_by_company(variant, arg)]
  /\ UNCHANGED <<variant, match_mode, arg>>
  /\ UNCHANGED scanvars

NextReports == WriteAggregates

SpecReports == InitReports /\ [][NextReports]_vars

\* no later row has a smaller lowercased (group, sub-group) pair
LabelOrdered(out) ==
  \A i \in 1..Len(out) : \A j \in (i + 1)..Len(out) :
    ~TupleLess(LabelKey(out[j].key), LabelKey(out[i].key))

\* C14: in both files both aggregate reports list their rows sorted by the
\* lowercased (group label, sub-group label) pair: of two written rows the
\* one with the smaller pair comes first.
C14_ReportsSortedByLabels ==
  pc = "reports" =>
    LabelOrdered(res.variable_rows) /\ LabelOrdered(res.company_rows)

\* ===================================================== specification SpecMain
\* main() from its arguments on: the target folder is resolved first, then
\* the run goes on as in Spec. arg holds what the arguments point at: for
\* --dir what stands at the path, for --name/--root the folder names under
\* the root and the name asked for. A taxonomy without keywords is among the
\* taxonomies.
NoKeywordTaxonomy == <<[cat |-> <<"c", "1">>, terms |-> <<>>]>>

ErrNoFolder == <<"No folder named">>
ErrNotDirectory == <<"Target folder does not exist or is not a directory">>
NameErrorMsg == <<"NameError: name 'find_folder_by_name' is not defined">>

TargetArgs ==
  {[by |-> "dir", at |-> k, dirs |-> {}, name |-> <<>>] :
     k \in {"dir", "file", "missing"}}
  \cup {[by |-> "name", at |-> "dir", dirs |-> ds, name |-> <<"a", "c">>] :
          ds \in {{G1}, {G1, FolderC}}}

\* find_folder_by_name: is there a directory under the root whose name is the
\* wanted one, letter case apart
find_folder_by_name(dirs, folder_name) ==
  \E d \in dirs : Lower(d) = Lower(folder_name)

\* the module defines find_folder_by_name (rescaner.py calls it and has no
\* definition or import of it)
DefinesFindFolder(v) == v = "main"

InitMain ==
  /\ pc = "args"
  /\ variant \in {"main", "rescaner"}
  /\ match_mode \in {"whole", "substring"}
  /\ arg \in TargetArgs
  /\ res = <<>>
  /\ fs \in Folders
  /\ taxonomy \in Taxonomies \cup {NoKeywordTaxonomy}
  /\ patterns = <<>> /\ pdf_files = <<>> /\ idx = 0
  /\ rows = <<>> /\ log_lines = <<>> /\ written = <<>>
  /\ run = 1

\* main() up to build_patterns: pc "returned" is the early return after the
\* error message (res), pc "crashed" the exception nobody catches
ResolveTarget ==
  /\ pc = "args"
  /\ IF arg.by = "name"
     THEN IF ~DefinesFindFolder(variant)
          THEN pc' = "crashed" /\ res' = NameErrorMsg
          ELSE IF find_folder_by_name(arg.dirs, arg.name)
               THEN pc' = "start" /\ res' = res
               ELSE pc' = "returned" /\ res' = ErrNoFolder
     ELSE IF arg.at # "dir"
          THEN pc' = "returned" /\ res' = ErrNotDirectory
          ELSE pc' = "start" /\ res' = res
  /\ UNCHANGED <<variant, match_mode, arg>>
  /\ UNCHANGED scanvars

NextMain == ResolveTarget \/ Next

SpecMain == InitMain /\ [][NextMain]_vars

\* C15: the integer written to the summary is the number of distinct file
\* names the scan enumerated, whatever the taxonomy and the folder content;
\* a document whose extraction failed counts like any other.
C15_SummaryCountsEnumerated ==
  pc = "done" =>
    written.summary = Cardinality({pdf_files[i].name : i \in 1..NumDocs})

\* the target the arguments name is missing or invalid
TargetInvalid ==
  \/ arg.by = "dir" /\ arg.at # "dir"
  \/ arg.by = "name" /\ ~find_folder_by_name(arg.dirs, arg.name)

\* C16: with a missing or invalid target folder main(), in both files,
\* reports the error and returns before any scanning and writes no report,
\* summary or log.
C16_InvalidTargetReported ==
  (TargetInvalid /\ pc # "args") =>
    /\ pc = "returned"
    /\ res \in {ErrNoFolder, ErrNotDirectory}
    /\ pdf_files = <<>> /\ rows = <<>> /\ written = <<>>
    /\ fs \cap ReportFiles = {}

\* ===================================================== specification SpecYear
\* the year of a file name: the name is drawn from bounded sets, one FindYear
\* step asks find_year_from_filename and both aggregators (on one row of
\* count 1 for that name). arg holds the name, res the three answers.
MaxNameLen == 6

YearChars == {"0", "1", "2", "9", "x"}

YearRow(name) == Row(<<"a">>, <<"a">>, name, <<"c", "1">>, <<"a">>, 1)

InitYear ==
  /\ IdleScan
  /\ pc = "name"
  /\ variant \in {"main", "rescaner"}
  /\ match_mode = "whole"
  /\ arg \in SeqsUpTo(YearChars, MaxNameLen)
  /\ res = <<>>

FindYear ==
  /\ pc = "name"
  /\ pc' = "year"
  /\ res' = [found |-> find_year_from_filename(arg),
             variable_report |-> generate_variable_report(<<YearRow(arg)>>),
             report_by_company |-> generate_report_by_company(<<YearRow(arg)>>)]
  /\ UNCHANGED <<variant, match_mode, arg>>
  /\ UNCHANGED scanvars

NextYear == FindYear

SpecYear == InitYear /\ [][NextYear]_vars

\* the places of name where (19|20)dd stands, and the number standing at one
YearPlaces(name) == {p \in 1..Len(name) : YearMatchAt(name, p)}

NumberAt(name, p) ==
  1000 * DigitVal(name[p]) + 100 * DigitVal(name[p + 1])
  + 10 * DigitVal(name[p + 2]) + DigitVal(name[p + 3])

LeftmostPlace(name) ==
  CHOOSE p \in YearPlaces(name) : \A q \in YearPlaces(name) : p <= q

\* the name's leftmost (19|20)dd is a year of the range
LeftmostInRange(name) ==
  /\ YearPlaces(name) # {}
  /\ NumberAt(name, LeftmostPlace(name)) \in Years

\* an aggregate that holds the one row under year y and nothing else
OnlyUnder(agg, key, y) ==
  /\ DOMAIN agg = {key}
  /\ \A z \in Years : agg[key][z] = (IF z = y THEN 1 ELSE 0)

\* C17: only the leftmost (19|20)dd of the file name counts: when it is a
\* year of 2019..2024 the row is aggregated under it, otherwise the row is
\* excluded from both aggregates, later years in the name notwithstanding;
\* find_year_from_filename returns None for exactly the excluded names.
C17_LeftmostYearOnly ==
  pc = "year" =>
    /\ LeftmostInRange(arg) =>
         LET y == NumberAt(arg, LeftmostPlace(arg))
         IN /\ OnlyUnder(res.variable_report,
                         <<<<"a">>, <<"a">>, <<"c", "1">>, <<"a">>>>, y)
            /\ OnlyUnder(res.report_by_company, <<<<"a">>, <<"a">>>>, y)
            /\ res.found = y
    /\ ~LeftmostInRange(arg) =>
         /\ DOMAIN res.variable_report = {}
         /\ DOMAIN res.report_by_company = {}
         /\ res.found = 0

\* reached: a name whose leftmost match is outside the range and which holds
\* a year of the range further right has been looked at
C17_Witness ==
  /\ pc = "year"
  /\ YearPlaces(arg) # {}
  /\ NumberAt(arg, LeftmostPlace(arg)) \notin Years
  /\ \E p \in YearPlaces(arg) : NumberAt(arg, p) \in Years
  /\ res.found = 0

\* =================================================== specification SpecLabels
\* the sub-group label and what it does to the aggregates: two documents
\* r2020.pdf stand in two folders under the group folder G1; the folder names
\* are drawn from bounded sets with the parenthesis at any place. One
\* LabelAndAggregate step makes their rows (counts 1 and 2) and writes both
\* aggregate reports. arg holds the two folder names, res rows and reports.
MaxFolderLen == 3

FolderChars == {"A", "B", " ", "("}

FolderNames == SeqsUpTo(FolderChars, MaxFolderLen) \ {<<>>}

LabelRow(folder, count) ==
  Row(determine_main_folder(<<G1, folder>>),
      determine_company_name(<<G1, folder>>),
      Name(<<"r", "2", "0", "2", "0">>), <<"c", "1">>, <<"a">>, count)

InitLabels ==
  /\ IdleScan
  /\ pc = "folders"
  /\ variant = "main"
  /\ match_mode = "whole"
  /\ arg \in [a : FolderNames, b : FolderNames]
  /\ res = <<>>

LabelAndAggregate ==
  /\ pc = "folders"
  /\ pc' = "labelled"
  /\ LET rs == <<LabelRow(arg.a, 1), LabelRow(arg.b, 2)>>
     IN res' = [rows |-> rs,
                variable_rows |-> write_variable_report(variant, rs),
                company_rows |-> write_report_by_company(variant, rs)]
  /\ UNCHANGED <<variant, match_mode, arg>>
  /\ UNCHANGED scanvars

NextLabels == LabelAndAggregate

SpecLabels == InitLabels /\ [][NextLabels]_vars

\* the place of the first "(" of name, one past its end when there is none
FirstParen(name) ==
  IF \E i \in 1..Len(name) : name[i] = "("
  THEN CHOOSE i \in 1..Len(name) :
         name[i] = "(" /\ \A j \in 1..(i - 1) : name[j] # "("
  ELSE Len(name) + 1

UpToParen(name) == SubSeq(name, 1, FirstParen(name) - 1)

\* t without the whitespace at its two ends
Trimmed(t) ==
  LET inked == {i \in 1..Len(t) : ~IsSpace(t[i])}
  IN IF inked = {} THEN <<>>
     ELSE SubSeq(t, CHOOSE i \in inked : \A j \in inked : i <= j,
                    CHOOSE i \in inked : \A j \in inked : i >= j)

\* C18: the sub-group label of a document is its parent folder's name up to
\* the first "(", trimmed, wherever the parenthesis stands; documents whose
\* parent folder names agree up to the first "(" get one label, and their
\* counts are summed into one row of each aggregate report.
C18_LabelBeforeParen ==
  pc = "labelled" =>
    /\ res.rows[1].sub_folder = Trimmed(UpToParen(arg.a))
    /\ res.rows[2].sub_folder = Trimmed(UpToParen(arg.b))
    /\ UpToParen(arg.a) = UpToParen(arg.b) =>
         /\ res.rows[1].sub_folder = res.rows[2].sub_folder
         /\ Len(res.variable_rows) = 1
         /\ res.variable_rows[1].years[2020] = 3
         /\ Len(res.company_rows) = 1
         /\ res.company_rows[1].years[2020] = 3

\* reached: two different folder names that agree up to a parenthesis which
\* is not their first character have been labelled and aggregated
C18_Witness ==
  /\ pc = "labelled"
  /\ arg.a # arg.b
  /\ UpToParen(arg.a) = UpToParen(arg.b)
  /\ FirstParen(arg.a) > 1 /\ FirstParen(arg.a) < Len(arg.a)
  /\ res.rows[1].sub_folder # <<>>
  /\ Len(res.company_rows) = 1

====
